---------------------------- MODULE Spec2Model ----------------------------
(***************************************************************************)
(* State-machine model of the CANopenNode STM32 HAL driver CO_driver.c:    *)
(* the transmit queue (CO_CANtxBufferInit, CO_CANsend, CO_CANpolling_Tx,   *)
(* CO_CANclearPendingSyncPDOs), the receive router (CO_CANrxBufferInit,    *)
(* CO_CANinterrupt_Rx), the error monitor (CO_CANverifyErrors) and the     *)
(* module initialisation (CO_CANmodule_init) and the change to normal mode *)
(* (CO_CANsetNormalMode).                                                  *)
(*                                                                         *)
(* Every handler is one atomic action.  The calls a handler makes to the   *)
(* emergency object (CO_errorReport, CO_errorReset) and to receive         *)
(* callbacks (pFunct) are recorded, for the last handler that ran, in      *)
(* emCalls and rxCalls; lastOp names that handler, its return value and,   *)
(* for the receive-side handlers, its arguments.  For the handlers that    *)
(* use the transmit critical section, trace holds, in program order, the   *)
(* CO_LOCK_CAN_SEND / CO_UNLOCK_CAN_SEND calls, the reads and writes of    *)
(* CANtxCount, bufferInhibitFlag and bufferFull, and the calls of          *)
(* HAL_CAN_AddTxMessage.                                                   *)
(***************************************************************************)
EXTENDS Integers, Sequences, FiniteSets, Bags

(***************************************************************************)
(* Bounds of the model.                                                    *)
(***************************************************************************)
\* txSize handed to CO_CANmodule_init
TxSize == 2
\* rxSize handed to CO_CANmodule_init
RxSize == 2
\* number of hardware transmit mailboxes of the peripheral
NumMailboxes == 2
\* cap on CANtxCount (a uint16_t counter in the code)
MaxCount == 3

(***************************************************************************)
(* Program constants.                                                      *)
(***************************************************************************)
\* width of the uint16_t fields (CANtxCount, the packed msg of the receiver)
UINT16 == 65536
\* 11-bit identifier mask 0x07FF
ID_MASK == 2047
\* RTR bit of the packed identifier, 0x02
RTR_BIT == 2
\* HAL error code bits read by CO_CANverifyErrors
HAL_CAN_ERROR_NONE == 0
HAL_CAN_ERROR_EWG == 1
HAL_CAN_ERROR_EPV == 2
HAL_CAN_ERROR_BOF == 4
HAL_CAN_ERROR_RX_FOV0 == 512
HAL_CAN_ERROR_RX_FOV1 == 1024
\* RxHeader.RTR of a remote frame (CAN_RTR_REMOTE); a data frame has 0
CAN_RTR_REMOTE == 2
\* the NULL pointer (absent handler, absent object)
NULL == 0

(***************************************************************************)
(* Bit operations on naturals.                                             *)
(***************************************************************************)
RECURSIVE BitAnd(_, _)
BitAnd(a, b) ==
    IF a = 0 \/ b = 0 THEN 0
    ELSE (a % 2) * (b % 2) + 2 * BitAnd(a \div 2, b \div 2)

RECURSIVE BitOr(_, _)
BitOr(a, b) ==
    IF a = 0 THEN b
    ELSE IF b = 0 THEN a
    ELSE (IF (a % 2) + (b % 2) > 0 THEN 1 ELSE 0) + 2 * BitOr(a \div 2, b \div 2)

RECURSIVE BitXor(_, _)
BitXor(a, b) ==
    IF a = 0 THEN b
    ELSE IF b = 0 THEN a
    ELSE ((a + b) % 2) + 2 * BitXor(a \div 2, b \div 2)

\* x << 2
Shl2(x) == x * 4

\* x >> 2
Shr2(x) == x \div 4

VARIABLES
    \* RxFifo_Callback_CanModule_p != NULL
    RxFifo_Callback_CanModule_p,
    \* CO_CANmodule_t fields
    CANnormal, bufferInhibitFlag, firstCANtxMessage, CANtxCount, errOld,
    \* txArray[i] = [ident, DLC, bufferFull, syncFlag], i in 0..TxSize-1
    txArray,
    \* rxArray[i] = [ident, mask, object, pFunct], i in 0..RxSize-1
    rxArray,
    \* hardware: the frames that occupy a transmit mailbox (a bag: the driver
    \* never looks at which mailbox holds a frame)
    mailboxes,
    \* hardware: CANbaseAddress->ErrorCode
    ErrorCode,
    \* emergency object: the error conditions that are set, among those the
    \* driver asks about (CO_isError)
    emActive,
    \* return value of the last CO_CANmodule_init ("none" before any call)
    initRet,
    \* the last handler that ran and what it returned
    lastOp,
    \* CO_errorReport / CO_errorReset calls of the last handler
    emCalls,
    \* pFunct calls of the last handler
    rxCalls,
    \* lock calls, shared-field accesses and HAL_CAN_AddTxMessage calls of the
    \* last handler, in program order
    trace

vars == <<RxFifo_Callback_CanModule_p, CANnormal, bufferInhibitFlag,
          firstCANtxMessage, CANtxCount, errOld, txArray, rxArray, mailboxes,
          ErrorCode, emActive, initRet, lastOp, emCalls, rxCalls, trace>>

txVars == <<bufferInhibitFlag, firstCANtxMessage, CANtxCount, txArray>>
hwVars == <<mailboxes, ErrorCode>>

TxIndex == 0 .. (TxSize - 1)
RxIndex == 0 .. (RxSize - 1)


(***************************************************************************)
(* Input sets.                                                             *)
(***************************************************************************)
\* bit rates handed to CO_CANmodule_init: two supported ones, one that is not
InitBitRates == {125, 33}
\* absent arguments handed to CO_CANmodule_init:
\* <<CANmodule, HALCanObject, rxArray, txArray>>
InitNullArgs == {<<FALSE, FALSE, FALSE, FALSE>>, <<TRUE, FALSE, FALSE, FALSE>>,
                 <<FALSE, TRUE, FALSE, FALSE>>, <<FALSE, FALSE, TRUE, FALSE>>,
                 <<FALSE, FALSE, FALSE, TRUE>>}
\* the bit rates of the switch in CO_CANmodule_init
SupportedBitRates == {1000, 500, 250, 125, 100, 50, 20, 10}
\* identifier handed to CO_CANtxBufferInit for slot index
TxIdentOf(index) == 384 + index
\* noOfBytes handed to CO_CANtxBufferInit
TxNoOfBytes == {8}
\* values an RxEntry mask that was never written may hold
InitMasks == {0, 8190}

(***************************************************************************)
(* Records of the calls a handler makes to the emergency object.           *)
(***************************************************************************)
Report(errorBit, errorCode, infoCode) ==
    [fn |-> "CO_errorReport", errorBit |-> errorBit, errorCode |-> errorCode,
     infoCode |-> infoCode]

Reset(errorBit, infoCode) ==
    [fn |-> "CO_errorReset", errorBit |-> errorBit, errorCode |-> "",
     infoCode |-> infoCode]

\* the error conditions the driver asks the emergency object about
EmQueried == {"CO_EM_CAN_TX_BUS_PASSIVE"}

\* the emergency object (its conditions in EmQueried) after the calls of seq,
\* made in order
RECURSIVE ApplyEm(_, _)
ApplyEm(active, seq) ==
    IF seq = <<>> THEN active
    ELSE ApplyEm(IF Head(seq).fn = "CO_errorReport"
                     THEN active \cup ({Head(seq).errorBit} \cap EmQueried)
                     ELSE active \ {Head(seq).errorBit},
                 Tail(seq))

\* CO_isError
CO_isError(active, errorBit) == errorBit \in active

\* lastOp: args holds the arguments of the receive-side handlers
OpArgs(name, ret, args) == [op |-> name, ret |-> ret, args |-> args]

Op(name, ret) == OpArgs(name, ret, <<>>)

(***************************************************************************)
(* Records of what a handler does with the transmit critical section.      *)
(* slot is the TxEntry an event is about, -1 when it is about the module.  *)
(***************************************************************************)
Lock == [ev |-> "CO_LOCK_CAN_SEND", field |-> "", slot |-> -1]

Unlock == [ev |-> "CO_UNLOCK_CAN_SEND", field |-> "", slot |-> -1]

Rd(field, slot) == [ev |-> "read", field |-> field, slot |-> slot]

Wr(field, slot) == [ev |-> "write", field |-> field, slot |-> slot]

\* a call of HAL_CAN_AddTxMessage with the frame of TxEntry slot
AddTx(slot) == [ev |-> "HAL_CAN_AddTxMessage", field |-> "", slot |-> slot]

(***************************************************************************)
(* Hardware abstraction: the transmit mailboxes.                           *)
(***************************************************************************)
HAL_CAN_GetTxMailboxesFreeLevel(mb) == NumMailboxes - BagCardinality(mb)

\* a successful HAL_CAN_AddTxMessage: the frame occupies a free mailbox
HAL_CAN_AddTxMessage(mb, frame) == mb (+) SetToBag({frame})

\* prepareTxHeader, with the slot and its sync tag kept beside the header
prepareTxHeader(index, buffer) ==
    [slot |-> index,
     StdId |-> Shr2(buffer.ident),
     RTR |-> BitAnd(buffer.ident, RTR_BIT),
     DLC |-> buffer.DLC,
     sync |-> buffer.syncFlag]

(***************************************************************************)
(* Initial state: the module object is not initialised.  Fields the driver *)
(* reads without CO_CANmodule_init having written them (an RxEntry's mask) *)
(* hold any value.  A TxEntry is read only after CO_CANtxBufferInit wrote  *)
(* it (see CO_CANsend), so its initial value is never seen.                *)
(***************************************************************************)
InitModule ==
    /\ RxFifo_Callback_CanModule_p = FALSE
    /\ CANnormal = FALSE
    /\ bufferInhibitFlag = FALSE
    /\ firstCANtxMessage = FALSE
    /\ CANtxCount = 0
    /\ errOld = 0
    /\ txArray = [i \in TxIndex |->
                    [ident |-> 0, DLC |-> 0, bufferFull |-> FALSE, syncFlag |-> FALSE]]
    /\ mailboxes = EmptyBag
    /\ ErrorCode = 0
    /\ emActive = {}
    /\ initRet = "none"
    /\ lastOp = Op("none", "")
    /\ emCalls = <<>>
    /\ rxCalls = <<>>
    /\ trace = <<>>

\* zeroed memory
Init ==
    /\ InitModule
    /\ rxArray = [i \in RxIndex |->
                    [ident |-> 0, mask |-> 0, object |-> NULL, pFunct |-> NULL]]

\* the driver's operations are used on a module whose init succeeded
Usable == initRet = "CO_ERROR_NO"

(***************************************************************************)
(* CO_CANmodule_init                                                       *)
(***************************************************************************)
InitReturn(bitRate, halOk) ==
    IF bitRate \notin SupportedBitRates THEN "CO_ERROR_ILLEGAL_BAUDRATE"
    ELSE IF ~halOk THEN "CO_ERROR_HAL"
    ELSE "CO_ERROR_NO"

\* HALCanObject is stored and dereferenced without a test.  With an absent
\* handle the writes through it (Instance, Init) are undefined: the call
\* faults and does not return, or it runs on and HAL_CAN_Init fails.
InitOutcomes(halNull, bitRate, halOk) ==
    IF halNull THEN {"fault", InitReturn(bitRate, FALSE)}
    ELSE {InitReturn(bitRate, halOk)}

CO_CANmodule_init(modNull, halNull, rxNull, txNull, bitRate, halOk) ==
    /\ emCalls' = <<>>
    /\ rxCalls' = <<>>
    /\ trace' = <<>>
    /\ UNCHANGED <<hwVars, emActive>>
    /\ IF modNull \/ rxNull \/ txNull
       THEN /\ initRet' = "CO_ERROR_ILLEGAL_ARGUMENT"
            /\ lastOp' = Op("CO_CANmodule_init", "CO_ERROR_ILLEGAL_ARGUMENT")
            /\ UNCHANGED <<RxFifo_Callback_CanModule_p, CANnormal, txVars,
                           errOld, rxArray>>
       ELSE /\ RxFifo_Callback_CanModule_p' = TRUE
            /\ CANnormal' = FALSE
            /\ bufferInhibitFlag' = FALSE
            /\ firstCANtxMessage' = TRUE
            /\ CANtxCount' = 0
            /\ errOld' = 0
            /\ rxArray' = [i \in RxIndex |->
                             [rxArray[i] EXCEPT !.ident = 0, !.pFunct = NULL]]
            /\ txArray' = [i \in TxIndex |->
                             [txArray[i] EXCEPT !.bufferFull = FALSE]]
            /\ \E ret \in InitOutcomes(halNull, bitRate, halOk) :
                   /\ initRet' = ret
                   /\ lastOp' = Op("CO_CANmodule_init", ret)

(***************************************************************************)
(* CO_CANsetNormalMode                                                     *)
(***************************************************************************)
SetNormalModeReturn(startOk, notifyOk) ==
    IF startOk /\ notifyOk THEN "CO_ERROR_NO" ELSE "CO_ERROR_HAL"

CO_CANsetNormalMode(startOk, notifyOk) ==
    /\ Usable
    /\ CANnormal' = TRUE
    /\ lastOp' = Op("CO_CANsetNormalMode", SetNormalModeReturn(startOk, notifyOk))
    /\ emCalls' = <<>>
    /\ rxCalls' = <<>>
    /\ trace' = <<>>
    /\ UNCHANGED <<RxFifo_Callback_CanModule_p, txVars, errOld, rxArray, hwVars,
                   emActive, initRet>>

(***************************************************************************)
(* CO_CANtxBufferInit                                                      *)
(***************************************************************************)
\* buffer->ident = ident << 2; if (rtr) buffer->ident |= 0x02;
TxPackIdent(ident, rtr) ==
    IF rtr THEN BitOr(Shl2(ident), RTR_BIT) ELSE Shl2(ident)

CO_CANtxBufferInit(index, ident, rtr, noOfBytes, syncFlag) ==
    /\ Usable
    /\ emCalls' = <<>>
    /\ rxCalls' = <<>>
    /\ trace' = <<>>
    /\ UNCHANGED <<RxFifo_Callback_CanModule_p, CANnormal, bufferInhibitFlag,
                   firstCANtxMessage, CANtxCount, errOld, rxArray, hwVars,
                   emActive, initRet>>
    /\ IF index < TxSize
       THEN /\ txArray' = [txArray EXCEPT ![index] =
                             [ident |-> TxPackIdent(ident, rtr),
                              DLC |-> noOfBytes,
                              bufferFull |-> FALSE,
                              syncFlag |-> syncFlag]]
            /\ lastOp' = Op("CO_CANtxBufferInit", "buffer")
       ELSE /\ UNCHANGED txArray
            /\ lastOp' = Op("CO_CANtxBufferInit", "NULL")

(***************************************************************************)
(* CO_CANsend                                                              *)
(***************************************************************************)
\* mutant: the overflow is reported during the first message too
SendOverflowCallsAlways(buffer, first) ==
    IF buffer.bufferFull
    THEN <<Report("CO_EM_CAN_TX_OVERFLOW", "CO_EMC_CAN_OVERRUN", buffer.ident)>>
    ELSE <<>>

\* the overflow check before the critical section
SendOverflowCalls(buffer, first) ==
    IF buffer.bufferFull /\ ~first
    THEN <<Report("CO_EM_CAN_TX_OVERFLOW", "CO_EMC_CAN_OVERRUN", buffer.ident)>>
    ELSE <<>>

\* mutant: the test of CANtxCount is missing
SendDirectAnyCount(count, mb) ==
    HAL_CAN_GetTxMailboxesFreeLevel(mb) > 0

\* the test that decides between the hardware and the queue
SendDirect(count, mb) ==
    count = 0 /\ HAL_CAN_GetTxMailboxesFreeLevel(mb) > 0

SendReturn(buffer, direct, halOk) ==
    IF direct /\ ~halOk THEN "CO_ERROR_HAL"
    ELSE IF buffer.bufferFull THEN "CO_ERROR_TX_OVERFLOW"
    ELSE "CO_ERROR_NO"

\* the caller sends a buffer that CO_CANtxBufferInit returned
Reserved(buffer) == buffer.DLC # 0

\* the overflow check reads bufferFull before CO_LOCK_CAN_SEND; the rest runs
\* between CO_LOCK_CAN_SEND and CO_UNLOCK_CAN_SEND
SendTrace(index, direct) ==
    <<Rd("bufferFull", index), Lock, Rd("CANtxCount", -1)>>
    \o (IF direct
        THEN <<Wr("bufferInhibitFlag", -1), AddTx(index)>>
        ELSE <<Wr("bufferFull", index), Rd("CANtxCount", -1), Wr("CANtxCount", -1)>>)
    \o <<Unlock>>

CO_CANsend(index, halOk) ==
    /\ Usable
    /\ Reserved(txArray[index])
    /\ CANtxCount < MaxCount
    /\ LET buffer == txArray[index]
           direct == SendDirect(CANtxCount, mailboxes)
       IN /\ emCalls' = SendOverflowCalls(buffer, firstCANtxMessage)
          /\ emActive' = ApplyEm(emActive, emCalls')
          /\ lastOp' = Op("CO_CANsend", SendReturn(buffer, direct, halOk))
          /\ trace' = SendTrace(index, direct)
          /\ IF direct
             THEN /\ bufferInhibitFlag' = buffer.syncFlag
                  /\ mailboxes' = IF halOk
                                  THEN HAL_CAN_AddTxMessage(mailboxes,
                                           prepareTxHeader(index, buffer))
                                  ELSE mailboxes
                  /\ UNCHANGED <<txArray, CANtxCount>>
             ELSE /\ txArray' = [txArray EXCEPT ![index].bufferFull = TRUE]
                  /\ CANtxCount' = (CANtxCount + 1) % UINT16
                  /\ UNCHANGED <<bufferInhibitFlag, mailboxes>>
    /\ rxCalls' = <<>>
    /\ UNCHANGED <<RxFifo_Callback_CanModule_p, CANnormal, firstCANtxMessage,
                   errOld, rxArray, ErrorCode, initRet>>

(***************************************************************************)
(* CO_CANclearPendingSyncPDOs                                              *)
(***************************************************************************)
\* mutant: the scan forgets the syncFlag test
ClearedSyncAnyFull(arr, count) ==
    IF count # 0
    THEN {i \in TxIndex : arr[i].bufferFull}
    ELSE {}

\* the entries the scan clears: it runs only when CANtxCount != 0
ClearedSync(arr, count) ==
    IF count # 0
    THEN {i \in TxIndex : arr[i].bufferFull /\ arr[i].syncFlag}
    ELSE {}

\* mutant: tpdoDeleted counts the deletions
TpdoDeletedCounted(inhibit, cleared) ==
    (IF inhibit THEN 1 ELSE 0) + Cardinality(cleared)

\* tpdoDeleted as the code leaves it
TpdoDeleted(inhibit, cleared) ==
    IF cleared # {} THEN 2
    ELSE IF inhibit THEN 1
    ELSE 0

\* the scan of the array, from entry i on
RECURSIVE ClearScanTrace(_, _)
ClearScanTrace(cleared, i) ==
    IF i = TxSize THEN <<>>
    ELSE <<Rd("bufferFull", i)>>
         \o (IF i \in cleared
             THEN <<Wr("bufferFull", i), Rd("CANtxCount", -1), Wr("CANtxCount", -1)>>
             ELSE <<>>)
         \o ClearScanTrace(cleared, i + 1)

\* everything between CO_LOCK_CAN_SEND and CO_UNLOCK_CAN_SEND
ClearSyncTrace(inhibit, count, cleared) ==
    <<Lock, Rd("bufferInhibitFlag", -1)>>
    \o (IF inhibit THEN <<Wr("bufferInhibitFlag", -1)>> ELSE <<>>)
    \o <<Rd("CANtxCount", -1)>>
    \o (IF count # 0 THEN ClearScanTrace(cleared, 0) ELSE <<>>)
    \o <<Unlock>>

ClearSyncCalls(tpdoDeleted) ==
    IF tpdoDeleted # 0
    THEN <<Report("CO_EM_TPDO_OUTSIDE_WINDOW", "CO_EMC_COMMUNICATION", tpdoDeleted)>>
    ELSE <<>>

CO_CANclearPendingSyncPDOs ==
    /\ Usable
    /\ LET cleared == ClearedSync(txArray, CANtxCount)
       IN /\ bufferInhibitFlag' = FALSE
          /\ txArray' = [i \in TxIndex |->
                           IF i \in cleared
                           THEN [txArray[i] EXCEPT !.bufferFull = FALSE]
                           ELSE txArray[i]]
          /\ CANtxCount' = (CANtxCount - Cardinality(cleared)) % UINT16
          /\ emCalls' = ClearSyncCalls(TpdoDeleted(bufferInhibitFlag, cleared))
          /\ trace' = ClearSyncTrace(bufferInhibitFlag, CANtxCount, cleared)
          /\ emActive' = ApplyEm(emActive, emCalls')
    /\ lastOp' = Op("CO_CANclearPendingSyncPDOs", "")
    /\ rxCalls' = <<>>
    /\ UNCHANGED <<RxFifo_Callback_CanModule_p, CANnormal, firstCANtxMessage,
                   errOld, rxArray, hwVars, initRet>>

(***************************************************************************)
(* CO_CANpolling_Tx                                                        *)
(***************************************************************************)
\* mutant: the scan starts at the second entry
FirstFullSkipZero(arr) ==
    IF \E i \in TxIndex \ {0} : arr[i].bufferFull
    THEN CHOOSE i \in TxIndex \ {0} :
             arr[i].bufferFull
             /\ \A k \in TxIndex \ {0} : arr[k].bufferFull => i <= k
    ELSE -1

\* mutant: the scan runs from the end of the array
FirstFullHighest(arr) ==
    IF \E i \in TxIndex : arr[i].bufferFull
    THEN CHOOSE i \in TxIndex :
             arr[i].bufferFull /\ \A k \in TxIndex : arr[k].bufferFull => k <= i
    ELSE -1

\* the entry the scan stops at: the first full one, -1 when there is none
FirstFull(arr) ==
    IF \E i \in TxIndex : arr[i].bufferFull
    THEN CHOOSE i \in TxIndex :
             arr[i].bufferFull /\ \A k \in TxIndex : arr[k].bufferFull => i <= k
    ELSE -1

\* mutant: the full flag is not cleared after the hand-over
DrainedEntryStillFull(buffer) == buffer

\* the entry after its frame was passed to the hardware
DrainedEntry(buffer) == [buffer EXCEPT !.bufferFull = FALSE]

\* the scan: CO_LOCK_CAN_SEND, the entries read up to the first full one, a
\* second CO_LOCK_CAN_SEND around the hand-over with the only
\* CO_UNLOCK_CAN_SEND in the function; when no entry is full the counter is
\* cleared and CO_UNLOCK_CAN_SEND is not called
PollScanTrace(arr, halOk) ==
    LET i == FirstFull(arr)
    IN <<Lock>>
       \o (IF i = -1
           THEN [k \in 1 .. TxSize |-> Rd("bufferFull", k - 1)]
                \o <<Wr("CANtxCount", -1)>>
           ELSE [k \in 1 .. (i + 1) |-> Rd("bufferFull", k - 1)]
                \o <<Wr("bufferInhibitFlag", -1), Lock, AddTx(i)>>
                \o (IF halOk
                    THEN <<Wr("bufferFull", i), Rd("CANtxCount", -1),
                           Wr("CANtxCount", -1)>>
                    ELSE <<>>)
                \o <<Unlock>>)

\* the flag is cleared and the counter is tested before CO_LOCK_CAN_SEND
PollingTrace(arr, count, free, halOk) ==
    IF free > 0
    THEN <<Wr("bufferInhibitFlag", -1), Rd("CANtxCount", -1)>>
         \o (IF count > 0 THEN PollScanTrace(arr, halOk) ELSE <<>>)
    ELSE <<>>

CO_CANpolling_Tx(halOk) ==
    /\ Usable
    /\ IF HAL_CAN_GetTxMailboxesFreeLevel(mailboxes) > 0
       THEN /\ firstCANtxMessage' = FALSE
            /\ IF CANtxCount > 0
               THEN LET i == FirstFull(txArray)
                    IN IF i # -1
                       THEN /\ bufferInhibitFlag' = txArray[i].syncFlag
                            /\ IF halOk
                               THEN /\ mailboxes' = HAL_CAN_AddTxMessage(mailboxes,
                                                        prepareTxHeader(i, txArray[i]))
                                    /\ txArray' = [txArray EXCEPT
                                                      ![i] = DrainedEntry(txArray[i])]
                                    /\ CANtxCount' = (CANtxCount - 1) % UINT16
                               ELSE UNCHANGED <<mailboxes, txArray, CANtxCount>>
                       ELSE /\ bufferInhibitFlag' = FALSE
                            /\ CANtxCount' = 0
                            /\ UNCHANGED <<mailboxes, txArray>>
               ELSE /\ bufferInhibitFlag' = FALSE
                    /\ UNCHANGED <<mailboxes, txArray, CANtxCount>>
       ELSE UNCHANGED <<txVars, mailboxes>>
    /\ lastOp' = Op("CO_CANpolling_Tx", "")
    /\ trace' = PollingTrace(txArray, CANtxCount,
                             HAL_CAN_GetTxMailboxesFreeLevel(mailboxes), halOk)
    /\ emCalls' = <<>>
    /\ rxCalls' = <<>>
    /\ UNCHANGED <<RxFifo_Callback_CanModule_p, CANnormal, errOld, rxArray,
                   ErrorCode, emActive, initRet>>

(***************************************************************************)
(* Hardware: the frame in mailbox m has gone out on the bus.               *)
(***************************************************************************)
HwTxComplete(frame) ==
    /\ BagIn(frame, mailboxes)
    /\ mailboxes' = mailboxes (-) SetToBag({frame})
    /\ UNCHANGED <<RxFifo_Callback_CanModule_p, CANnormal, txVars, errOld,
                   rxArray, ErrorCode, emActive, initRet, lastOp, emCalls,
                   rxCalls, trace>>

(***************************************************************************)
(* The transmit side.                                                      *)
(***************************************************************************)
\* the calls of CO_CANmodule_init: with every argument present, each bit
\* rate with HAL_CAN_Init succeeding or failing; with one argument absent
InitCalls ==
    {<<null, bitRate, halOk>> :
         null \in {<<FALSE, FALSE, FALSE, FALSE>>}, bitRate \in InitBitRates,
         halOk \in BOOLEAN}
    \cup {<<null, 125, TRUE>> : null \in InitNullArgs}

DoInit ==
    \E call \in InitCalls :
        CO_CANmodule_init(call[1][1], call[1][2], call[1][3], call[1][4],
                          call[2], call[3])

DoTxBufferInit ==
    \E index \in 0 .. TxSize : \E noOfBytes \in TxNoOfBytes : \E syncFlag \in BOOLEAN :
        CO_CANtxBufferInit(index, TxIdentOf(index), FALSE, noOfBytes, syncFlag)

DoSend == \E index \in TxIndex : \E halOk \in BOOLEAN : CO_CANsend(index, halOk)

DoClearPendingSync == CO_CANclearPendingSyncPDOs

DoPollingTx == \E halOk \in BOOLEAN : CO_CANpolling_Tx(halOk)

DoTxComplete == \E frame \in BagToSet(mailboxes) : HwTxComplete(frame)

Next ==
    \/ DoInit
    \/ DoTxBufferInit
    \/ DoSend
    \/ DoClearPendingSync
    \/ DoPollingTx
    \/ DoTxComplete

Spec == Init /\ [][Next]_vars

(***************************************************************************)
(* The transmit side of an initialised module whose slots are reserved,    *)
(* with the drain and the hardware running: a CO_CANpolling_Tx call in     *)
(* which HAL_CAN_AddTxMessage succeeds is made again and again while it    *)
(* can change something, and a frame in a mailbox goes out on the bus.     *)
(***************************************************************************)
\* the state after CO_CANmodule_init returned CO_ERROR_NO and
\* CO_CANtxBufferInit was called for every slot, with any sync tags
InitLive ==
    /\ RxFifo_Callback_CanModule_p = TRUE
    /\ CANnormal = FALSE
    /\ bufferInhibitFlag = FALSE
    /\ firstCANtxMessage = TRUE
    /\ CANtxCount = 0
    /\ errOld = 0
    /\ \E sync \in [TxIndex -> BOOLEAN] : \E noOfBytes \in TxNoOfBytes :
           txArray = [i \in TxIndex |->
                        [ident |-> TxPackIdent(TxIdentOf(i), FALSE),
                         DLC |-> noOfBytes,
                         bufferFull |-> FALSE,
                         syncFlag |-> sync[i]]]
    /\ rxArray = [i \in RxIndex |->
                    [ident |-> 0, mask |-> 0, object |-> NULL, pFunct |-> NULL]]
    /\ mailboxes = EmptyBag
    /\ ErrorCode = 0
    /\ emActive = {}
    /\ initRet = "CO_ERROR_NO"
    /\ lastOp = Op("CO_CANtxBufferInit", "buffer")
    /\ emCalls = <<>>
    /\ rxCalls = <<>>
    /\ trace = <<>>

NextLive ==
    \/ DoSend
    \/ DoClearPendingSync
    \/ DoPollingTx
    \/ DoTxComplete

SpecLive ==
    /\ InitLive
    /\ [][NextLive]_vars
    /\ SF_vars(CO_CANpolling_Tx(TRUE))
    /\ WF_vars(DoTxComplete)


(***************************************************************************)
(* CO_CANrxBufferInit                                                      *)
(***************************************************************************)
\* buffer->ident = (ident & 0x07FF) << 2; if (rtr) buffer->ident |= 0x02;
RxPackIdent(ident, rtr) ==
    IF rtr THEN BitOr(Shl2(BitAnd(ident, ID_MASK)), RTR_BIT)
    ELSE Shl2(BitAnd(ident, ID_MASK))

\* mutant: the RTR position of the mask is not forced to "care"
RxPackMaskNoRtr(mask) == Shl2(BitAnd(mask, ID_MASK))

\* buffer->mask = (mask & 0x07FF) << 2; buffer->mask |= 0x02;
RxPackMask(mask) == BitOr(Shl2(BitAnd(mask, ID_MASK)), RTR_BIT)

\* mutant: the test of the handler is missing
RxBufferInitValidNoHandler(index, object, pFunct) ==
    object # NULL /\ index < RxSize

RxBufferInitValid(index, object, pFunct) ==
    object # NULL /\ pFunct # NULL /\ index < RxSize

CO_CANrxBufferInit(index, ident, mask, rtr, object, pFunct, filterOk) ==
    /\ Usable
    /\ IF RxBufferInitValid(index, object, pFunct)
       THEN /\ rxArray' = [rxArray EXCEPT ![index] =
                             [ident |-> RxPackIdent(ident, rtr),
                              mask |-> RxPackMask(mask),
                              object |-> object,
                              pFunct |-> pFunct]]
            /\ lastOp' = OpArgs("CO_CANrxBufferInit",
                                IF filterOk THEN "CO_ERROR_NO" ELSE "CO_ERROR_HAL",
                                <<index, ident, mask, rtr, object, pFunct>>)
       ELSE /\ UNCHANGED rxArray
            /\ lastOp' = OpArgs("CO_CANrxBufferInit", "CO_ERROR_ILLEGAL_ARGUMENT",
                                <<index, ident, mask, rtr, object, pFunct>>)
    /\ emCalls' = <<>>
    /\ rxCalls' = <<>>
    /\ trace' = <<>>
    /\ UNCHANGED <<RxFifo_Callback_CanModule_p, CANnormal, txVars, errOld,
                   hwVars, emActive, initRet>>

(***************************************************************************)
(* CO_CANinterrupt_Rx, entered through HAL_CAN_RxFifo0MsgPendingCallback   *)
(***************************************************************************)
\* msg = ((uint16_t)(StdId << 2)) | (uint16_t)RTR
RxPackMsg(StdId, RTR) == BitOr(Shl2(StdId) % UINT16, RTR % UINT16)

\* ((msg ^ MsgBuff->ident) & MsgBuff->mask) == 0
RxMatches(msg, buffer) == BitAnd(BitXor(msg, buffer.ident), buffer.mask) = 0

\* mutant: the search loop does not break, the last match wins
RxLastMatch(msg, arr) ==
    IF \E i \in RxIndex : RxMatches(msg, arr[i])
    THEN CHOOSE i \in RxIndex :
             RxMatches(msg, arr[i]) /\ \A k \in RxIndex : RxMatches(msg, arr[k]) => k <= i
    ELSE RxSize

\* the index the search loop breaks at, RxSize when it runs to the end
RxFirstMatch(msg, arr) ==
    IF \E i \in RxIndex : RxMatches(msg, arr[i])
    THEN CHOOSE i \in RxIndex :
             RxMatches(msg, arr[i]) /\ \A k \in RxIndex : RxMatches(msg, arr[k]) => i <= k
    ELSE RxSize

\* the call of the matched entry's handler, if it has one
RxDispatch(StdId, RTR, arr) ==
    LET index == RxFirstMatch(RxPackMsg(StdId, RTR), arr)
    IN IF index < RxSize /\ arr[index].pFunct # NULL
       THEN <<[pFunct |-> arr[index].pFunct, object |-> arr[index].object,
               ident |-> StdId, RTR |-> RTR]>>
       ELSE <<>>

HAL_CAN_RxFifo0MsgPendingCallback(StdId, RTR) ==
    /\ IF RxFifo_Callback_CanModule_p
       THEN rxCalls' = RxDispatch(StdId, RTR, rxArray)
       ELSE rxCalls' = <<>>
    /\ lastOp' = OpArgs("HAL_CAN_RxFifo0MsgPendingCallback", "", <<StdId, RTR>>)
    /\ emCalls' = <<>>
    /\ trace' = <<>>
    /\ UNCHANGED <<RxFifo_Callback_CanModule_p, CANnormal, txVars, errOld,
                   rxArray, hwVars, emActive, initRet>>

(***************************************************************************)
(* The receive side.                                                       *)
(***************************************************************************)
\* identifiers and masks handed to CO_CANrxBufferInit: 0x123, 0x124; 0x7FF, 0x7F8
RxIdents == {291, 292}
RxMasks == {2047, 2040}
\* object handed to CO_CANrxBufferInit for entry index
RxObjectOf(index) == 10 + index
\* the handlers handed to CO_CANrxBufferInit
RxHandlers == {1}
\* received frames: identifiers 0, 0x123, 0x124, 0x125, data or remote
RxStdIds == {0, 291, 292, 293}
RxRTRs == {0, CAN_RTR_REMOTE}

InitRx ==
    /\ InitModule
    /\ rxArray \in [RxIndex -> [ident : {0}, mask : InitMasks, object : {NULL},
                                pFunct : {NULL}]]

\* the calls of CO_CANrxBufferInit: every valid one, and for each entry and
\* for the index rxSize those with an absent object or an absent handler
RxInitCalls ==
    {<<index, ident, mask, rtr, RxObjectOf(index), pFunct>> :
         index \in 0 .. RxSize, ident \in RxIdents, mask \in RxMasks,
         rtr \in BOOLEAN, pFunct \in RxHandlers}
    \cup UNION {{<<index, 291, 2047, FALSE, object, pFunct>> :
                     object \in {NULL, RxObjectOf(index)},
                     pFunct \in {NULL} \cup RxHandlers} : index \in 0 .. RxSize}

DoRxBufferInit ==
    \E call \in RxInitCalls : \E filterOk \in BOOLEAN :
        CO_CANrxBufferInit(call[1], call[2], call[3], call[4], call[5], call[6],
                           filterOk)

DoRxInterrupt ==
    \E StdId \in RxStdIds : \E RTR \in RxRTRs :
        HAL_CAN_RxFifo0MsgPendingCallback(StdId, RTR)

NextRx ==
    \/ DoInit
    \/ DoRxBufferInit
    \/ DoRxInterrupt

SpecRx == InitRx /\ [][NextRx]_vars

(***************************************************************************)
(* CO_CANverifyErrors                                                      *)
(***************************************************************************)
Has(code, bit) == BitAnd(code, bit) # 0

\* mutant: the warning is reported on the passive bit
NotBusOffCallsWarnOnPassive(code, first, active) ==
    <<Reset("CO_EM_CAN_TX_BUS_OFF", code)>>
    \o (IF Has(code, HAL_CAN_ERROR_EPV)
        THEN <<Report("CO_EM_CAN_BUS_WARNING", "CO_EMC_NO_ERROR", code)>>
        ELSE <<>>)
    \o (IF Has(code, HAL_CAN_ERROR_EPV)
        THEN (IF ~first
              THEN <<Report("CO_EM_CAN_TX_BUS_PASSIVE", "CO_EMC_CAN_PASSIVE", code)>>
              ELSE <<>>)
        ELSE (IF CO_isError(active, "CO_EM_CAN_TX_BUS_PASSIVE")
              THEN <<Reset("CO_EM_CAN_TX_BUS_PASSIVE", code),
                     Reset("CO_EM_CAN_TX_OVERFLOW", code)>>
              ELSE <<>>))

\* the calls of the "not bus off" branch
NotBusOffCalls(code, first, active) ==
    <<Reset("CO_EM_CAN_TX_BUS_OFF", code)>>
    \o (IF Has(code, HAL_CAN_ERROR_EWG)
        THEN <<Report("CO_EM_CAN_BUS_WARNING", "CO_EMC_NO_ERROR", code)>>
        ELSE <<>>)
    \o (IF Has(code, HAL_CAN_ERROR_EPV)
        THEN (IF ~first
              THEN <<Report("CO_EM_CAN_TX_BUS_PASSIVE", "CO_EMC_CAN_PASSIVE", code)>>
              ELSE <<>>)
        ELSE (IF CO_isError(active, "CO_EM_CAN_TX_BUS_PASSIVE")
              THEN <<Reset("CO_EM_CAN_TX_BUS_PASSIVE", code),
                     Reset("CO_EM_CAN_TX_OVERFLOW", code)>>
              ELSE <<>>))
    \o (IF Has(code, HAL_CAN_ERROR_NONE)
        THEN <<Reset("CO_EM_CAN_BUS_WARNING", code)>>
        ELSE <<>>)

\* the calls made once the error code is known to have changed
ChangedCalls(code, first, active) ==
    (IF Has(code, HAL_CAN_ERROR_BOF)
     THEN <<Report("CO_EM_CAN_TX_BUS_OFF", "CO_EMC_BUS_OFF_RECOVERED", code)>>
     ELSE NotBusOffCalls(code, first, active))
    \o (IF Has(code, HAL_CAN_ERROR_RX_FOV0) \/ Has(code, HAL_CAN_ERROR_RX_FOV1)
        THEN <<Report("CO_EM_CAN_RXB_OVERFLOW", "CO_EMC_CAN_OVERRUN", code)>>
        ELSE <<>>)

\* mutant: the comparison with errOld is missing
ErrChangedAlways(old, code) == TRUE

\* if(CANmodule->errOld != HalCanErrorCode)
ErrChanged(old, code) == old # code

CO_CANverifyErrors ==
    /\ Usable
    /\ IF ErrChanged(errOld, ErrorCode)
       THEN /\ errOld' = ErrorCode
            /\ emCalls' = ChangedCalls(ErrorCode, firstCANtxMessage, emActive)
       ELSE /\ UNCHANGED errOld
            /\ emCalls' = <<>>
    /\ emActive' = ApplyEm(emActive, emCalls')
    /\ lastOp' = Op("CO_CANverifyErrors", "")
    /\ rxCalls' = <<>>
    /\ trace' = <<>>
    /\ UNCHANGED <<RxFifo_Callback_CanModule_p, CANnormal, txVars, rxArray,
                   hwVars, initRet>>

(***************************************************************************)
(* Hardware: the peripheral's error code changes.                          *)
(***************************************************************************)
\* the error codes the hardware shows: warning, passive, bus off and FIFO 0
\* overflow in any combination, and FIFO 1 overflow alone or with FIFO 0
ErrorCodes ==
    {w + p + b + f : w \in {0, HAL_CAN_ERROR_EWG}, p \in {0, HAL_CAN_ERROR_EPV},
                     b \in {0, HAL_CAN_ERROR_BOF}, f \in {0, HAL_CAN_ERROR_RX_FOV0}}
    \cup {HAL_CAN_ERROR_RX_FOV1, HAL_CAN_ERROR_RX_FOV0 + HAL_CAN_ERROR_RX_FOV1}

HwError(code) ==
    /\ code # ErrorCode
    /\ ErrorCode' = code
    /\ UNCHANGED <<RxFifo_Callback_CanModule_p, CANnormal, txVars, errOld,
                   rxArray, mailboxes, emActive, initRet, lastOp, emCalls,
                   rxCalls, trace>>

DoHwError == \E code \in ErrorCodes : HwError(code)

DoVerifyErrors == CO_CANverifyErrors

DoSetNormalMode ==
    \E startOk \in BOOLEAN : \E notifyOk \in BOOLEAN :
        CO_CANsetNormalMode(startOk, notifyOk)

NextErr ==
    \/ DoInit
    \/ DoSetNormalMode
    \/ DoHwError
    \/ DoVerifyErrors
    \/ DoPollingTx

SpecErr == Init /\ [][NextErr]_vars


(***************************************************************************)
(* Properties.                                                             *)
(***************************************************************************)
\* the full TxEntry slots
FullSlots(arr) == {i \in TxIndex : arr[i].bufferFull}

\* the calls of seq that report errorBit
Reports(seq, errorBit) ==
    {k \in 1 .. Len(seq) : seq[k].fn = "CO_errorReport" /\ seq[k].errorBit = errorBit}

\* the calls of seq that reset errorBit
Resets(seq, errorBit) ==
    {k \in 1 .. Len(seq) : seq[k].fn = "CO_errorReset" /\ seq[k].errorBit = errorBit}

\* bit b of x
Bit(x, b) == (x \div (2 ^ b)) % 2

\* C1: whenever no handler is running, CANtxCount equals the number of
\* TxEntry slots whose bufferFull is true.
C1_CountEqualsFull == CANtxCount = Cardinality(FullSlots(txArray))

\* C2: CO_CANsend reports a TX overflow exactly when the entry it is called
\* on is already full and firstCANtxMessage is false: one report in that
\* case, none when the entry is not full, none while firstCANtxMessage is
\* still true.
C2_OverflowReportedIff ==
    [][\A index \in TxIndex : \A halOk \in BOOLEAN :
          (lastOp'.op = "CO_CANsend" /\ CO_CANsend(index, halOk)) =>
              /\ Cardinality(Reports(emCalls', "CO_EM_CAN_TX_OVERFLOW")) =
                     (IF txArray[index].bufferFull /\ ~firstCANtxMessage THEN 1 ELSE 0)
              /\ Len(emCalls') = Cardinality(Reports(emCalls', "CO_EM_CAN_TX_OVERFLOW"))
      ]_vars

\* C2 witness: a send on a full entry after the first message has reported
\* the overflow.
C2_Witness ==
    /\ lastOp.op = "CO_CANsend"
    /\ lastOp.ret = "CO_ERROR_TX_OVERFLOW"
    /\ Reports(emCalls, "CO_EM_CAN_TX_OVERFLOW") # {}
    /\ ~firstCANtxMessage

\* C3: CO_CANclearPendingSyncPDOs leaves no entry full and sync-tagged,
\* leaves the full flag of every entry that is not sync-tagged unchanged,
\* decreases CANtxCount by the number of entries whose full flag it cleared,
\* and reports once when it deleted something (the inhibit flag or an entry)
\* and not at all otherwise.
C3_ClearSync ==
    [][(lastOp'.op = "CO_CANclearPendingSyncPDOs" /\ CO_CANclearPendingSyncPDOs) =>
          LET cleared == {i \in TxIndex :
                              txArray[i].bufferFull /\ ~txArray'[i].bufferFull}
          IN /\ \A i \in TxIndex : ~(txArray'[i].bufferFull /\ txArray'[i].syncFlag)
             /\ \A i \in TxIndex :
                    ~txArray[i].syncFlag =>
                        txArray'[i].bufferFull = txArray[i].bufferFull
             /\ CANtxCount' = CANtxCount - Cardinality(cleared)
             /\ Len(emCalls') =
                    (IF bufferInhibitFlag \/ cleared # {} THEN 1 ELSE 0)
             /\ \A k \in 1 .. Len(emCalls') : emCalls'[k].fn = "CO_errorReport"
      ]_vars

\* C3 witness: the call cleared a sync-tagged entry, reported it, and left
\* an entry that is not sync-tagged queued.
C3_Witness ==
    /\ lastOp.op = "CO_CANclearPendingSyncPDOs"
    /\ Len(emCalls) = 1
    /\ emCalls[1].errorBit = "CO_EM_TPDO_OUTSIDE_WINDOW"
    /\ \E i \in TxIndex : txArray[i].bufferFull /\ ~txArray[i].syncFlag
    /\ \E i \in TxIndex : ~txArray[i].bufferFull /\ txArray[i].syncFlag
    /\ CANtxCount > 0

\* C4 as claimed: the auxiliary value of the "outside window" report is the
\* number of deletions of the call, one for a set inhibit flag plus one for
\* each full sync-tagged entry cleared.
C4_AuxIsDeletionCount ==
    [][(lastOp'.op = "CO_CANclearPendingSyncPDOs" /\ CO_CANclearPendingSyncPDOs) =>
          \A k \in Reports(emCalls', "CO_EM_TPDO_OUTSIDE_WINDOW") :
              emCalls'[k].infoCode =
                  (IF bufferInhibitFlag THEN 1 ELSE 0)
                  + Cardinality({i \in TxIndex :
                                    txArray[i].bufferFull /\ ~txArray'[i].bufferFull})
      ]_vars

\* C4 as amended: the auxiliary value of the "outside window" report is 2
\* when the call cleared at least one full sync-tagged entry, and 1 when it
\* cleared only the inhibit flag.
C4_AuxIsCode ==
    [][(lastOp'.op = "CO_CANclearPendingSyncPDOs" /\ CO_CANclearPendingSyncPDOs) =>
          \A k \in Reports(emCalls', "CO_EM_TPDO_OUTSIDE_WINDOW") :
              emCalls'[k].infoCode =
                  (IF \E i \in TxIndex :
                          txArray[i].bufferFull /\ ~txArray'[i].bufferFull
                   THEN 2 ELSE 1)
      ]_vars

\* C4 witness: a call that cleared a queued sync-tagged entry has reported
\* with the auxiliary value 2.
C4_Witness ==
    /\ lastOp.op = "CO_CANclearPendingSyncPDOs"
    /\ Reports(emCalls, "CO_EM_TPDO_OUTSIDE_WINDOW") # {}
    /\ \A k \in Reports(emCalls, "CO_EM_TPDO_OUTSIDE_WINDOW") : emCalls[k].infoCode = 2
    /\ \E i \in TxIndex : Reserved(txArray[i]) /\ txArray[i].syncFlag


\* a frame with identifier StdId and remote flag RTR matches what was handed
\* to CO_CANrxBufferInit: equal identifier bits wherever the 11-bit mask is
\* 1, and the same remote flag
FrameFits(StdId, RTR, ident, mask, rtr) ==
    /\ \A b \in 0 .. 10 : Bit(mask, b) = 1 => Bit(StdId, b) = Bit(ident, b)
    /\ (RTR # 0) = rtr

\* C5: an entry installed by CO_CANrxBufferInit(index, ident, mask, rtr, ..)
\* matches a received frame exactly when the frame's identifier equals
\* ident on every bit where the mask is 1 and the frame's remote flag equals
\* rtr.
C5_MatchIffCareBitsEqual ==
    (lastOp.op = "CO_CANrxBufferInit" /\ lastOp.ret # "CO_ERROR_ILLEGAL_ARGUMENT") =>
        LET index == lastOp.args[1]
            ident == lastOp.args[2]
            mask == lastOp.args[3]
            rtr == lastOp.args[4]
        IN \A StdId \in RxStdIds : \A RTR \in RxRTRs :
               RxMatches(RxPackMsg(StdId, RTR), rxArray[index])
                   <=> FrameFits(StdId, RTR, ident, mask, rtr)

\* C5 witness: an entry holds identifier 0x123, mask 0x7FF, data frame, and
\* the frame 0x123 / RTR=0 has been dispatched to its handler.
C5_Witness ==
    /\ lastOp.op = "HAL_CAN_RxFifo0MsgPendingCallback"
    /\ \E i \in RxIndex :
          /\ rxArray[i].ident = RxPackIdent(291, FALSE)
          /\ rxArray[i].mask = RxPackMask(2047)
          /\ rxCalls = <<[pFunct |-> rxArray[i].pFunct, object |-> rxArray[i].object,
                          ident |-> 291, RTR |-> 0]>>

\* the entries a frame matches
MatchingEntries(StdId, RTR, arr) ==
    {i \in RxIndex : RxMatches(RxPackMsg(StdId, RTR), arr[i])}

\* C6: the dispatch of a received frame calls at most one handler; a call is
\* the handler of the lowest-index matching entry with that entry's object
\* (and is made when that entry has a handler); when no entry matches no
\* handler is called.
C6_FirstMatchWins ==
    (lastOp.op = "HAL_CAN_RxFifo0MsgPendingCallback" /\ RxFifo_Callback_CanModule_p) =>
        LET StdId == lastOp.args[1]
            RTR == lastOp.args[2]
            M == MatchingEntries(StdId, RTR, rxArray)
        IN /\ Len(rxCalls) <= 1
           /\ M = {} => rxCalls = <<>>
           /\ \A lo \in M :
                  (\A i \in M : lo <= i) =>
                      rxCalls = IF rxArray[lo].pFunct # NULL
                                THEN <<[pFunct |-> rxArray[lo].pFunct,
                                        object |-> rxArray[lo].object,
                                        ident |-> StdId, RTR |-> RTR]>>
                                ELSE <<>>

\* C6 witness: a frame that matches two configured entries has been
\* dispatched to the handler of entry 0, with the object of entry 0.
C6_Witness ==
    /\ lastOp.op = "HAL_CAN_RxFifo0MsgPendingCallback"
    /\ Len(rxCalls) = 1
    /\ Cardinality(MatchingEntries(rxCalls[1].ident, rxCalls[1].RTR, rxArray)) >= 2
    /\ \A i \in RxIndex : rxArray[i].pFunct # NULL
    /\ rxCalls[1].object = rxArray[0].object
    /\ rxArray[1].object # rxArray[0].object

\* the state of the driver and of the emergency object
driverVars == <<RxFifo_Callback_CanModule_p, CANnormal, txVars, errOld, rxArray,
                emActive, initRet>>

\* C7: a CO_CANverifyErrors call that finds the error code equal to errOld
\* makes no report and no reset and changes no state; the call that sees
\* the change 0 -> bus off makes exactly one bus-off report.
C7_NoRepeatWhenUnchanged ==
    [][CO_CANverifyErrors =>
          /\ ErrorCode = errOld =>
                 (emCalls' = <<>> /\ UNCHANGED driverVars /\ UNCHANGED hwVars)
          /\ (errOld = 0 /\ ErrorCode = HAL_CAN_ERROR_BOF) =>
                 (/\ Cardinality(Reports(emCalls', "CO_EM_CAN_TX_BUS_OFF")) = 1
                  /\ errOld' = HAL_CAN_ERROR_BOF)
      ]_vars

\* C7 witness: bus off has been seen before, and a further call with bus off
\* unchanged has made no call to the emergency object.
C7_Witness ==
    /\ lastOp.op = "CO_CANverifyErrors"
    /\ ErrorCode = HAL_CAN_ERROR_BOF
    /\ errOld = HAL_CAN_ERROR_BOF
    /\ emCalls = <<>>

\* C8: when a condition's bit was set in the error code seen before, with
\* its fault reported, and is clear in the current error code,
\* CO_CANverifyErrors resets that fault: bus off, warning, passive.
\* (The call that stored errOld reported bus off when the bit is set in
\* errOld, and the warning when the warning bit is set and bus off is not;
\* a reported passive fault is set in the emergency object.)
C8_ClearWhenBitFalls ==
    [][CO_CANverifyErrors =>
          /\ (Has(errOld, HAL_CAN_ERROR_BOF) /\ ~Has(ErrorCode, HAL_CAN_ERROR_BOF))
                 => Resets(emCalls', "CO_EM_CAN_TX_BUS_OFF") # {}
          /\ (/\ Has(errOld, HAL_CAN_ERROR_EWG)
              /\ ~Has(errOld, HAL_CAN_ERROR_BOF)
              /\ ~Has(ErrorCode, HAL_CAN_ERROR_EWG))
                 => Resets(emCalls', "CO_EM_CAN_BUS_WARNING") # {}
          /\ (/\ Has(errOld, HAL_CAN_ERROR_EPV)
              /\ CO_isError(emActive, "CO_EM_CAN_TX_BUS_PASSIVE")
              /\ ~Has(ErrorCode, HAL_CAN_ERROR_EPV))
                 => Resets(emCalls', "CO_EM_CAN_TX_BUS_PASSIVE") # {}
      ]_vars

\* the condition of errorBit holds in the error code
ConditionSet(errorBit, code) ==
    CASE errorBit = "CO_EM_CAN_TX_BUS_OFF" -> Has(code, HAL_CAN_ERROR_BOF)
      [] errorBit = "CO_EM_CAN_BUS_WARNING" -> Has(code, HAL_CAN_ERROR_EWG)
      [] errorBit = "CO_EM_CAN_TX_BUS_PASSIVE" -> Has(code, HAL_CAN_ERROR_EPV)
      [] errorBit = "CO_EM_CAN_RXB_OVERFLOW" ->
             Has(code, HAL_CAN_ERROR_RX_FOV0) \/ Has(code, HAL_CAN_ERROR_RX_FOV1)
      [] OTHER -> FALSE

\* the calls of seq that report something
AllReports(seq) == {k \in 1 .. Len(seq) : seq[k].fn = "CO_errorReport"}

RECURSIVE CountFrames(_, _, _)
CountFrames(mb, frames, slot) ==
    IF frames = {} THEN 0
    ELSE LET f == CHOOSE x \in frames : TRUE
         IN (IF f.slot = slot THEN CopiesIn(f, mb) ELSE 0)
            + CountFrames(mb, frames \ {f}, slot)

\* the number of frames of TxEntry slot that occupy a mailbox
InFlight(slot) == CountFrames(mailboxes, BagToSet(mailboxes), slot)

\* C11: a CO_CANsetNormalMode call in which HAL_CAN_Start or
\* HAL_CAN_ActivateNotification fails returns CO_ERROR_HAL and leaves
\* CANnormal as it was (false stays false); a call in which both succeed
\* returns CO_ERROR_NO and sets CANnormal.
C11_NormalOnlyOnSuccess ==
    [][\A startOk \in BOOLEAN : \A notifyOk \in BOOLEAN :
          (lastOp'.op = "CO_CANsetNormalMode"
           /\ CO_CANsetNormalMode(startOk, notifyOk)) =>
              IF startOk /\ notifyOk
              THEN lastOp'.ret = "CO_ERROR_NO" /\ CANnormal'
              ELSE lastOp'.ret = "CO_ERROR_HAL" /\ CANnormal' = CANnormal
      ]_vars

\* C12: CO_CANmodule_init returns CO_ERROR_ILLEGAL_ARGUMENT when the module,
\* the hardware handle, the rx array or the tx array is absent,
\* CO_ERROR_ILLEGAL_BAUDRATE when the bit rate is not a supported one,
\* CO_ERROR_HAL when HAL_CAN_Init fails, and a call that does not return
\* CO_ERROR_NO does not install the module as the target of the receive
\* callbacks.
C12_InitFailsClean ==
    [][\A call \in InitCalls :
          (lastOp'.op = "CO_CANmodule_init"
           /\ CO_CANmodule_init(call[1][1], call[1][2], call[1][3], call[1][4],
                                call[2], call[3])) =>
              LET absent == \E k \in 1 .. 4 : call[1][k]
              IN /\ absent => lastOp'.ret = "CO_ERROR_ILLEGAL_ARGUMENT"
                 /\ (~absent /\ call[2] \notin SupportedBitRates)
                        => lastOp'.ret = "CO_ERROR_ILLEGAL_BAUDRATE"
                 /\ (~absent /\ call[2] \in SupportedBitRates /\ ~call[3])
                        => lastOp'.ret = "CO_ERROR_HAL"
                 /\ lastOp'.ret # "CO_ERROR_NO"
                        => (RxFifo_Callback_CanModule_p'
                                => RxFifo_Callback_CanModule_p)
      ]_vars

\* C13: CO_CANrxBufferInit returns CO_ERROR_ILLEGAL_ARGUMENT exactly when
\* index >= rxSize or the object or the handler is absent, and then changes
\* no RxEntry; otherwise the entry at index holds the identifier (11 bits,
\* shifted by two, RTR flag in bit 1), the mask (11 bits, shifted by two, bit
\* 1 set), the handler and the object, and every other entry is unchanged.
C13_ConfigureWritesOnlyIndex ==
    [][lastOp'.op = "CO_CANrxBufferInit" =>
          LET index == lastOp'.args[1]
              ident == lastOp'.args[2]
              mask == lastOp'.args[3]
              rtr == lastOp'.args[4]
              object == lastOp'.args[5]
              pFunct == lastOp'.args[6]
              illegal == index >= RxSize \/ object = NULL \/ pFunct = NULL
          IN /\ (lastOp'.ret = "CO_ERROR_ILLEGAL_ARGUMENT") <=> illegal
             /\ illegal => rxArray' = rxArray
             /\ ~illegal =>
                    /\ rxArray'[index] =
                           [ident |-> (ident % 2048) * 4 + (IF rtr THEN 2 ELSE 0),
                            mask |-> (mask % 2048) * 4 + 2,
                            object |-> object,
                            pFunct |-> pFunct]
                    /\ \A i \in RxIndex \ {index} : rxArray'[i] = rxArray[i]
      ]_vars

\* C13 witness: entry 1 has been configured for a remote frame while entry 0
\* holds another configuration.
C13_Witness ==
    /\ lastOp.op = "CO_CANrxBufferInit"
    /\ lastOp.ret = "CO_ERROR_NO"
    /\ lastOp.args[1] = 1
    /\ lastOp.args[4]
    /\ rxArray[1].ident = lastOp.args[2] * 4 + 2
    /\ rxArray[0].pFunct # NULL
    /\ rxArray[0].ident # rxArray[1].ident

\* the HAL_CAN_AddTxMessage calls of seq
AddTxCalls(seq) == {k \in 1 .. Len(seq) : seq[k].ev = "HAL_CAN_AddTxMessage"}

\* what a drain that passes the frame of entry i to the hardware leaves:
\* on success only the full flag of i is cleared, the count is one less and
\* the frame is in a mailbox; on failure nothing of these has changed
DrainEffect(i, halOk) ==
    IF halOk
    THEN /\ FullSlots(txArray') = FullSlots(txArray) \ {i}
         /\ CANtxCount' = CANtxCount - 1
         /\ mailboxes' = mailboxes (+) SetToBag({prepareTxHeader(i, txArray[i])})
    ELSE /\ FullSlots(txArray') = FullSlots(txArray)
         /\ CANtxCount' = CANtxCount
         /\ mailboxes' = mailboxes

\* the call passes to the hardware exactly one frame, that of the
\* lowest-index full entry
DrainsLowestFull(seq) ==
    /\ Cardinality(AddTxCalls(seq)) = 1
    /\ \A k \in AddTxCalls(seq) :
           /\ seq[k].slot \in FullSlots(txArray)
           /\ \A j \in FullSlots(txArray) : seq[k].slot <= j

C15_SendDirectOnlyWhenIdle ==
    [][\A index \in TxIndex : \A halOk \in BOOLEAN :
          (lastOp'.op = "CO_CANsend" /\ CO_CANsend(index, halOk)) =>
              /\ IF CANtxCount = 0 /\ HAL_CAN_GetTxMailboxesFreeLevel(mailboxes) > 0
                 THEN /\ Cardinality(AddTxCalls(trace')) = 1
                      /\ \A k \in AddTxCalls(trace') : trace'[k].slot = index
                      /\ FullSlots(txArray') = FullSlots(txArray)
                      /\ CANtxCount' = CANtxCount
                      /\ halOk => mailboxes' = mailboxes (+)
                                      SetToBag({prepareTxHeader(index, txArray[index])})
                 ELSE /\ AddTxCalls(trace') = {}
                      /\ mailboxes' = mailboxes
                      /\ FullSlots(txArray') = FullSlots(txArray) \cup {index}
                      /\ CANtxCount' = CANtxCount + 1
              /\ AddTxCalls(trace') # {} => FullSlots(txArray) = {}
      ]_vars

\* C15 witness: a send has queued its frame behind a waiting one although a
\* mailbox was free.
C15_Witness ==
    /\ lastOp.op = "CO_CANsend"
    /\ lastOp.ret = "CO_ERROR_NO"
    /\ AddTxCalls(trace) = {}
    /\ HAL_CAN_GetTxMailboxesFreeLevel(mailboxes) > 0
    /\ Cardinality(FullSlots(txArray)) = 2
    /\ CANtxCount = 2

\* bufferInhibitFlag is true if a sync-tagged frame occupies a mailbox of mb
InhibitCovers(flag, mb) == (\E f \in BagToSet(mb) : f.sync) => flag

\* C16: bufferInhibitFlag is true whenever a sync-tagged frame that was
\* passed to the hardware still occupies a mailbox.  It is so before the
\* first frame is sent; the property says that the calls that pass frames to
\* the hardware, CO_CANsend and CO_CANpolling_Tx, keep it so.
C16_InhibitWhileSyncInFlight ==
    [][\A halOk \in BOOLEAN :
          (/\ lastOp'.op \in {"CO_CANsend", "CO_CANpolling_Tx"}
           /\ InhibitCovers(bufferInhibitFlag, mailboxes)
           /\ \/ CO_CANpolling_Tx(halOk)
              \/ \E index \in TxIndex : CO_CANsend(index, halOk)) =>
              InhibitCovers(bufferInhibitFlag', mailboxes')
      ]_vars

\* the CO_LOCK_CAN_SEND calls not yet matched by a CO_UNLOCK_CAN_SEND call
\* before event k of seq
LockDepth(seq, k) ==
    Cardinality({j \in 1 .. (k - 1) : seq[j] = Lock})
    - Cardinality({j \in 1 .. (k - 1) : seq[j] = Unlock})

\* C17: in CO_CANsend, CO_CANpolling_Tx and CO_CANclearPendingSyncPDOs every
\* read and every write of CANtxCount, bufferInhibitFlag and bufferFull is
\* made between CO_LOCK_CAN_SEND and CO_UNLOCK_CAN_SEND.
C17_SharedAccessInsideLock ==
    \A k \in 1 .. Len(trace) :
        trace[k].ev \in {"read", "write"} => LockDepth(trace, k) > 0

\* C18: CO_CANsend, CO_CANpolling_Tx and CO_CANclearPendingSyncPDOs call
\* CO_UNLOCK_CAN_SEND as often as CO_LOCK_CAN_SEND on every path, so the
\* critical section is not held when the call returns.
C18_LocksBalanced == LockDepth(trace, Len(trace) + 1) = 0

\* C19: CANtxCount is never smaller than the number of full TxEntry slots;
\* hence while an entry is full the count is not zero and a drain with a
\* free mailbox scans the array.
C19_CountCoversFull ==
    /\ CANtxCount >= Cardinality(FullSlots(txArray))
    /\ FullSlots(txArray) # {} => CANtxCount # 0

\* C19 witness: the count has run ahead of the full flags (two sends on the
\* same slot) and still covers the one entry that is full.
C19_Witness ==
    /\ lastOp.op = "CO_CANsend"
    /\ lastOp.ret = "CO_ERROR_TX_OVERFLOW"
    /\ Cardinality(FullSlots(txArray)) = 1
    /\ CANtxCount = 2

\* C20: when CO_CANsend is called no more, the drain keeps being called
\* while a mailbox is free and the hardware accepts its frame, every full
\* flag eventually is and stays false and CANtxCount eventually is and stays
\* 0.
C20_QueueDrains ==
    <>[][~DoSend]_vars => <>[](FullSlots(txArray) = {} /\ CANtxCount = 0)

\* C20 witness: a drain has passed the last queued frame to the hardware
\* and left the queue empty.
C20_Witness ==
    /\ lastOp.op = "CO_CANpolling_Tx"
    /\ AddTxCalls(trace) # {}
    /\ \E k \in 1 .. Len(trace) : trace[k].ev = "write" /\ trace[k].field = "bufferFull"
    /\ FullSlots(txArray) = {}
    /\ CANtxCount = 0

\* C21: a passive condition that persists is reported once
\* firstCANtxMessage is false: a CO_CANverifyErrors call that finds the
\* passive bit set (and no bus off), firstCANtxMessage false and the passive
\* fault not standing in the emergency object reports the passive fault,
\* also when the error code has not changed since the call that suppressed
\* the report.  (A call that makes no report changes nothing, so if this
\* call does not report, no later call with the same error code does.)
C21_PassiveReportedAfterFirst ==
    [][(/\ lastOp'.op = "CO_CANverifyErrors"
        /\ CO_CANverifyErrors
        /\ Has(ErrorCode, HAL_CAN_ERROR_EPV)
        /\ ~Has(ErrorCode, HAL_CAN_ERROR_BOF)
        /\ ~firstCANtxMessage
        /\ ~CO_isError(emActive, "CO_EM_CAN_TX_BUS_PASSIVE")) =>
           Reports(emCalls', "CO_EM_CAN_TX_BUS_PASSIVE") # {}
      ]_vars

\* the entries CO_CANrxBufferInit has written since CO_CANmodule_init
Configured(arr) == {i \in RxIndex : arr[i].pFunct # NULL}

\* C22: an entry that was not configured since CO_CANmodule_init never
\* takes a received frame: when the frame matches a configured entry, the
\* handler of the lowest-index configured matching entry is called, with
\* that entry's object, whatever the entries below it hold.
C22_UnconfiguredNeverMatches ==
    (lastOp.op = "HAL_CAN_RxFifo0MsgPendingCallback" /\ RxFifo_Callback_CanModule_p) =>
        LET StdId == lastOp.args[1]
            RTR == lastOp.args[2]
            M == MatchingEntries(StdId, RTR, rxArray) \cap Configured(rxArray)
        IN \A lo \in M :
               (\A i \in M : lo <= i) =>
                   rxCalls = <<[pFunct |-> rxArray[lo].pFunct,
                                object |-> rxArray[lo].object,
                                ident |-> StdId, RTR |-> RTR]>>

\* C10: at most one frame of any TxEntry slot occupies a hardware mailbox
\* at a time.
C10_OneInFlightPerSlot == \A slot \in TxIndex : InFlight(slot) <= 1

=============================================================================
